---------------------------- MODULE Spec2Model ----------------------------
(***************************************************************************)
(* A model of the rusty-graphs library: the adjacency-list graph           *)
(* (src/src/graph.rs), the single-source shortest-path algorithms          *)
(* (src/src/bellman_ford.rs, src/src/dijkstra.rs), the traversals          *)
(* (src/src/bfs.rs, src/src/dfs.rs) and the all-pairs shortest paths       *)
(* (src/src/floyd_warshall.rs).                                            *)
(*                                                                         *)
(* Rust indices are 0-based; a Vec is a TLA+ sequence read through At.     *)
(* A HashMap<usize, Edge> is a function whose DOMAIN is its key set; the   *)
(* order in which it is iterated is not fixed by the code, so every place  *)
(* that iterates one takes an arbitrary order of its keys.                 *)
(* An OrderedFloat<f64> is <<0, x>> for the finite value x and <<1, 0>>    *)
(* for positive infinity, compared as OrderedFloat compares them. The      *)
(* finite values are integers, so their sums are exact.                    *)
(***************************************************************************)
EXTENDS Integers, Sequences, FiniteSets

VARIABLES
    undirected,  \* GraphList.undirected
    nodes,       \* GraphList.nodes
    call,        \* the GraphList method called last, with its arguments
    pre,         \* GraphList.nodes when that call was made
    ret,         \* what that call returned
    pc,          \* where the caller of the shortest-path functions stands
    start,       \* the start argument of bellman_ford and dijkstra
    layout,      \* per node, the order in which its HashMap yields its keys
    bf,          \* what bellman_ford returned
    costs,       \* dijkstra: costs
    queue,       \* dijkstra: queue (the BinaryHeap's content)
    pops,        \* dijkstra: iterations of the while loop so far
    popped,      \* dijkstra: the entries queue.pop() has returned, in order
    waiting,     \* dijkstra: queue as the last pop left it
    seen,        \* bfs, dfs_stack: seen
    last,        \* bfs, dfs_stack: last
    pending,     \* bfs: pending
    enqueued,    \* bfs: the nodes pushed to pending, in order
    to_explore,  \* dfs_stack: to_explore
    order,       \* dfs_stack: the nodes in the order they were marked seen
    component,   \* what dfs_connected_componentes returned
    fw           \* floyd_warshall: cost and last when it returns

gvars == <<undirected, nodes, call, pre, ret>>
spvars == <<pc, start, layout, bf, costs, queue, pops, popped, waiting>>
trvars == <<seen, last, pending, enqueued, to_explore, order, component>>
vars == <<undirected, nodes, call, pre, ret, pc, start, layout, bf, costs, queue, pops,
          popped, waiting, seen, last, pending, enqueued, to_explore, order, component,
          fw>>

--------------------------------------------------------------------------
(* Bounds of the model. *)

MaxNodes == 3
MaxEdges == 3
MaxNeg == 1
MaxWeight == 2
MaxPops == 10

Indices == 0..MaxNodes
Weights == (0 - MaxNeg)..MaxWeight
\* The weights the callers of insert_edge pass: the graph stores a weight and
\* never computes with it, so two distinct values show every overwrite.
CallWeights == 1..MaxWeight

--------------------------------------------------------------------------
(* Option, Result, Vec, OrderedFloat. *)

None == <<>>
Some(x) == <<x>>
is_some(o) == Len(o) = 1
is_none(o) == Len(o) = 0
unwrap(o) == o[1]

Ok(x) == <<"Ok", x>>
Err(x) == <<"Err", x>>
Panic == <<"panic">>
Unit == <<>>
is_ok(r) == r[1] = "Ok"
is_err(r) == r[1] = "Err"

\* The labels the callers pass: no method reads a label.
Labels == {None}

At(vec, i) == vec[i + 1]
Update(vec, i, x) == [vec EXCEPT ![i + 1] = x]

Into(x) == <<0, x>>
INFINITY == <<1, 0>>
FAdd(a, b) == IF a[1] = 1 \/ b[1] = 1 THEN INFINITY ELSE <<0, a[2] + b[2]>>
FLt(a, b) == a[1] < b[1] \/ (a[1] = b[1] /\ a[2] < b[2])

--------------------------------------------------------------------------
(* struct Edge, struct Node. *)

Edge_new(from, to, weight) == [from |-> from, to |-> to, weight |-> Into(weight)]

Node_new(index, label) ==
    [index |-> index, edges |-> [k \in {} |-> Unit], label |-> label]

num_edges(node) == Cardinality(DOMAIN node.edges)

Node_get_edge(node, index) ==
    IF index \in DOMAIN node.edges THEN Some(node.edges[index]) ELSE None

add_edge_keep_first(node, neighbor, weight) ==
    IF neighbor \in DOMAIN node.edges THEN node
    ELSE [node EXCEPT !.edges =
            [k \in DOMAIN node.edges \cup {neighbor} |->
                IF k = neighbor THEN Edge_new(node.index, neighbor, weight)
                ELSE node.edges[k]]]

add_edge_swapped(node, neighbor, weight) ==
    [node EXCEPT !.edges =
        [k \in DOMAIN node.edges \cup {neighbor} |->
            IF k = neighbor THEN Edge_new(neighbor, node.index, weight)
            ELSE node.edges[k]]]

add_edge(node, neighbor, weight) ==
    [node EXCEPT !.edges =
        [k \in DOMAIN node.edges \cup {neighbor} |->
            IF k = neighbor THEN Edge_new(node.index, neighbor, weight)
            ELSE node.edges[k]]]

Node_remove_edge(node, neighbor) ==
    [node EXCEPT !.edges = [k \in DOMAIN node.edges \ {neighbor} |-> node.edges[k]]]

--------------------------------------------------------------------------
(* impl GraphList: the read-only methods, as operators of the graph g.     *)

num_nodes(g) == Len(g)

valid_indices_from_only(g, from, to) == from \in 0..(num_nodes(g) - 1)

valid_indices(g, from, to) ==
    from \in 0..(num_nodes(g) - 1) /\ to \in 0..(num_nodes(g) - 1)

\* g.nodes[i]: an index outside the Vec panics.
InBounds(g, i) == i < num_nodes(g)

get_edge(g, from, to) ==
    IF ~valid_indices(g, from, to) THEN Err(<<from, to>>)
    ELSE IF ~InBounds(g, from) THEN Panic
    ELSE Ok(Node_get_edge(At(g, from), to))

is_edge(g, from, to) ==
    LET r == get_edge(g, from, to) IN is_ok(r) /\ is_some(r[2])

TotalEdges(g) ==
    Cardinality({p \in (0..(Len(g) - 1)) \X Indices : p[2] \in DOMAIN At(g, p[1]).edges})

--------------------------------------------------------------------------
(* impl GraphList: the calls, each one action.                             *)

GetEdge(from, to) ==
    /\ call' = <<"get_edge", from, to>>
    /\ pre' = nodes
    /\ ret' = get_edge(nodes, from, to)
    /\ UNCHANGED <<undirected, nodes>>
    /\ UNCHANGED <<spvars, trvars, fw>>

IsEdge(from, to) ==
    /\ call' = <<"is_edge", from, to>>
    /\ pre' = nodes
    /\ ret' = is_edge(nodes, from, to)
    /\ UNCHANGED <<undirected, nodes>>
    /\ UNCHANGED <<spvars, trvars, fw>>

\* The graph and the result of insert_edge, <<nodes', ret'>>.
insert_edge_no_mirror(g, from, to, weight) ==
    IF ~valid_indices(g, from, to) THEN <<g, Err(<<from, to>>)>>
    ELSE IF ~InBounds(g, from) THEN <<g, Panic>>
    ELSE <<Update(g, from, add_edge(At(g, from), to, weight)), Ok(Unit)>>

insert_edge(g, from, to, weight) ==
    IF ~valid_indices(g, from, to) THEN <<g, Err(<<from, to>>)>>
    ELSE IF ~InBounds(g, from) THEN <<g, Panic>>
    ELSE LET g1 == Update(g, from, add_edge(At(g, from), to, weight))
         IN  IF undirected
             THEN IF ~InBounds(g1, to) THEN <<g1, Panic>>
                  ELSE <<Update(g1, to, add_edge(At(g1, to), from, weight)), Ok(Unit)>>
             ELSE <<g1, Ok(Unit)>>

InsertEdge(from, to, weight) ==
    LET r == insert_edge(nodes, from, to, weight)
    IN  /\ TotalEdges(r[1]) <= MaxEdges
        /\ call' = <<"insert_edge", from, to, weight>>
        /\ pre' = nodes
        /\ nodes' = r[1]
        /\ ret' = r[2]
        /\ UNCHANGED undirected
        /\ UNCHANGED <<spvars, trvars, fw>>

remove_edge_clear(g, from, to) ==
    IF ~valid_indices(g, from, to) THEN <<g, Err(<<from, to>>)>>
    ELSE IF ~InBounds(g, from) THEN <<g, Panic>>
    ELSE <<Update(g, from, [At(g, from) EXCEPT !.edges = [k \in {} |-> Unit]]), Ok(Unit)>>

remove_edge(g, from, to) ==
    IF ~valid_indices(g, from, to) THEN <<g, Err(<<from, to>>)>>
    ELSE IF ~InBounds(g, from) THEN <<g, Panic>>
    ELSE LET g1 == Update(g, from, Node_remove_edge(At(g, from), to))
         IN  IF undirected
             THEN IF ~InBounds(g1, to) THEN <<g1, Panic>>
                  ELSE <<Update(g1, to, Node_remove_edge(At(g1, to), from)), Ok(Unit)>>
             ELSE <<g1, Ok(Unit)>>

RemoveEdge(from, to) ==
    LET r == remove_edge(nodes, from, to)
    IN  /\ call' = <<"remove_edge", from, to>>
        /\ pre' = nodes
        /\ nodes' = r[1]
        /\ ret' = r[2]
        /\ UNCHANGED undirected
        /\ UNCHANGED <<spvars, trvars, fw>>

\* The graph and the returned &Node (self.nodes.last().unwrap()).
insert_node_index_off(g, label) ==
    LET g1 == Append(g, Node_new(num_nodes(g) + 1, label))
    IN  <<g1, g1[Len(g1)]>>

insert_node(g, label) ==
    LET g1 == Append(g, Node_new(num_nodes(g), label))
    IN  <<g1, g1[Len(g1)]>>

InsertNode(label) ==
    LET r == insert_node(nodes, label)
    IN  /\ Len(nodes) < MaxNodes
        /\ call' = <<"insert_node", label>>
        /\ pre' = nodes
        /\ nodes' = r[1]
        /\ ret' = r[2]
        /\ UNCHANGED undirected
        /\ UNCHANGED <<spvars, trvars, fw>>

--------------------------------------------------------------------------
(* The graph under its callers: a GraphList built as the tests build it,   *)
(* nodes 0..n-1 with Node::new(i, None), then any calls.                   *)

InitNodes(n) == [i \in 1..n |-> Node_new(i - 1, None)]

Init ==
    /\ undirected \in BOOLEAN
    /\ \E n \in 0..MaxNodes : nodes = InitNodes(n)
    /\ call = <<"new">>
    /\ pre = nodes
    /\ ret = Unit
    /\ pc = "calls"
    /\ start = 0
    /\ layout = <<>>
    /\ bf = None
    /\ costs = <<>>
    /\ queue = {}
    /\ pops = 0
    /\ popped = <<>>
    /\ waiting = {}
    /\ seen = <<>>
    /\ last = <<>>
    /\ pending = <<>>
    /\ enqueued = <<>>
    /\ to_explore = <<>>
    /\ order = <<>>
    /\ component = <<>>
    /\ fw = <<>>

Next ==
    \/ \E from \in Indices, to \in Indices : GetEdge(from, to)
    \/ \E from \in Indices, to \in Indices : IsEdge(from, to)
    \/ \E from \in Indices, to \in Indices, weight \in CallWeights : InsertEdge(from, to, weight)
    \/ \E from \in Indices, to \in Indices : RemoveEdge(from, to)
    \/ \E label \in Labels : InsertNode(label)

Spec == Init /\ [][Next]_vars

--------------------------------------------------------------------------
(* The graph data model: what the calls keep and what they return.         *)

ValidPairs(g) == (0..(Len(g) - 1)) \X (0..(Len(g) - 1))
HasEdge(g, u, v) == v \in DOMAIN At(g, u).edges
InRange(g, from, to) == from < Len(g) /\ to < Len(g)

\* C1: every stored edge e of node u has e.from = u, e.to = the key it is
\* stored under, and both ends below node_count, whatever calls were made.
C1_EdgesValid ==
    \A u \in 0..(Len(nodes) - 1) :
        \A k \in DOMAIN At(nodes, u).edges :
            LET e == At(nodes, u).edges[k]
            IN  e.from = u /\ e.to = k /\ e.from < Len(nodes) /\ e.to < Len(nodes)

C1_Witness ==
    /\ call[1] = "insert_edge" /\ is_ok(ret)
    /\ call[2] # call[3]
    /\ TotalEdges(nodes) >= 2
    /\ TotalEdges(pre) < TotalEdges(nodes)

\* C2: in an undirected graph the edge (u,v) is present iff (v,u) is, and
\* the two carry the same weight.
C2_UndirectedSymmetric ==
    undirected =>
        \A p \in ValidPairs(nodes) :
            /\ HasEdge(nodes, p[1], p[2]) <=> HasEdge(nodes, p[2], p[1])
            /\ HasEdge(nodes, p[1], p[2]) =>
                  At(nodes, p[1]).edges[p[2]].weight = At(nodes, p[2]).edges[p[1]].weight

\* The pair re-inserted in the opposite direction with another weight.
C2_Witness ==
    /\ undirected
    /\ call[1] = "insert_edge" /\ is_ok(ret)
    /\ call[2] # call[3]
    /\ HasEdge(pre, call[3], call[2])
    /\ At(pre, call[3]).edges[call[2]].weight # Into(call[4])
    /\ At(nodes, call[3]).edges[call[2]].weight = Into(call[4])

\* C3: get_edge, insert_edge and remove_edge return an error exactly when
\* from or to is outside [0, node_count), never panic, and a failing
\* insert_edge or remove_edge leaves the graph as it was; is_edge returns
\* false for indices out of range.
C3_ErrorIffOutOfRange ==
    /\ call[1] \in {"get_edge", "insert_edge", "remove_edge"} =>
          /\ ret[1] # "panic"
          /\ is_err(ret) <=> ~InRange(pre, call[2], call[3])
          /\ is_err(ret) => nodes = pre
          /\ Len(pre) = 0 => is_err(ret)
    /\ call[1] = "is_edge" =>
          /\ ret \in BOOLEAN
          /\ ~InRange(pre, call[2], call[3]) => ret = FALSE

\* from is in range and to is not, on a graph that holds edges.
C3_Witness ==
    /\ call[1] = "insert_edge"
    /\ call[2] < Len(pre) /\ call[3] >= Len(pre)
    /\ TotalEdges(pre) >= 1
    /\ is_err(ret) /\ nodes = pre

\* C4: a valid insert_edge(from, to, w) overwrites: get_edge(from, to) then
\* returns the edge {from, to, w}, node from's edge count grows by 1 if the
\* pair was absent and by 0 if it was present, and in a directed graph every
\* other pair keeps its presence and weight.
C4_InsertOverwrites ==
    (call[1] = "insert_edge" /\ InRange(pre, call[2], call[3])) =>
        LET from == call[2]
            to == call[3]
        IN  /\ get_edge(nodes, from, to) =
                  Ok(Some([from |-> from, to |-> to, weight |-> <<0, call[4]>>]))
            /\ num_edges(At(nodes, from)) =
                  num_edges(At(pre, from)) + (IF HasEdge(pre, from, to) THEN 0 ELSE 1)
            /\ ~undirected =>
                  \A p \in ValidPairs(pre) \ {<<from, to>>} :
                      Node_get_edge(At(nodes, p[1]), p[2]) = Node_get_edge(At(pre, p[1]), p[2])

\* (0,1,w1) then (0,1,w2) with w2 # w1, another edge of node 0 standing by.
C4_Witness ==
    /\ ~undirected
    /\ call[1] = "insert_edge" /\ call[2] = 0 /\ call[3] = 1
    /\ InRange(pre, 0, 1)
    /\ HasEdge(pre, 0, 1)
    /\ At(pre, 0).edges[1].weight # Into(call[4])
    /\ num_edges(At(pre, 0)) = 2
    /\ At(nodes, 0).edges[1].weight = Into(call[4])

\* C5: a valid remove_edge(from, to) returns Ok whether or not the edge
\* exists; afterwards is_edge(from, to) is false (and is_edge(to, from) in an
\* undirected graph), every other pair's edge and node_count are unchanged,
\* and when the edge was absent the whole graph is unchanged.
C5_RemoveEdgeFrame ==
    (call[1] = "remove_edge" /\ InRange(pre, call[2], call[3])) =>
        LET from == call[2]
            to == call[3]
            removed == {<<from, to>>} \cup (IF undirected THEN {<<to, from>>} ELSE {})
        IN  /\ ret = Ok(Unit)
            /\ ~is_edge(nodes, from, to)
            /\ undirected => ~is_edge(nodes, to, from)
            /\ Len(nodes) = Len(pre)
            /\ \A p \in ValidPairs(pre) \ removed :
                  Node_get_edge(At(nodes, p[1]), p[2]) = Node_get_edge(At(pre, p[1]), p[2])
            /\ ~HasEdge(pre, from, to) => nodes = pre

\* An edge that was there is removed while node from keeps another one.
C5_Witness ==
    /\ call[1] = "remove_edge" /\ InRange(pre, call[2], call[3])
    /\ HasEdge(pre, call[2], call[3])
    /\ num_edges(At(pre, call[2])) >= 2
    /\ num_edges(At(nodes, call[2])) = num_edges(At(pre, call[2])) - 1

\* C6: insert_node appends a node whose index is the node count before the
\* call and that has no edges; node_count grows by exactly 1 and the nodes
\* that were there keep index and edges; no call decreases node_count or
\* changes the index of a node.
C6_InsertNodeAppends ==
    /\ call[1] = "insert_node" =>
          /\ ret.index = Len(pre)
          /\ num_edges(ret) = 0
          /\ Len(nodes) = Len(pre) + 1
          /\ SubSeq(nodes, 1, Len(pre)) = pre
          /\ nodes[Len(nodes)] = ret
    /\ Len(nodes) >= Len(pre)
    /\ \A i \in 0..(Len(pre) - 1) : At(nodes, i).index = At(pre, i).index

\* A node is appended to a graph that already holds nodes and edges.
C6_Witness ==
    /\ call[1] = "insert_node"
    /\ Len(pre) >= 2
    /\ TotalEdges(pre) >= 2
    /\ ret.index = Len(pre)

--------------------------------------------------------------------------
(* Iteration over a node's HashMap. The map of an unmodified graph yields  *)
(* its keys in one order, which the code does not choose: layout[i + 1]    *)
(* is that order for node i, any permutation of the keys.                  *)

Permutations(S) ==
    {f \in [1..Cardinality(S) -> S] : \A i, j \in 1..Cardinality(S) : f[i] = f[j] => i = j}

RECURSIVE LayoutsUpTo(_, _)
LayoutsUpTo(g, n) ==
    IF n = 0 THEN {<<>>}
    ELSE {Append(l, p) : l \in LayoutsUpTo(g, n - 1), p \in Permutations(DOMAIN g[n].edges)}

Layouts(g) == LayoutsUpTo(g, Len(g))

\* Node::get_edge_list of node i: self.edges.values().collect()
get_edge_list(g, l, i) ==
    [j \in 1..Len(l[i + 1]) |-> At(g, i).edges[l[i + 1][j]]]

\* GraphList::make_edge_list: the nodes in order, each with its edge list.
RECURSIVE make_edge_list_from(_, _, _)
make_edge_list_from(g, l, i) ==
    IF i >= num_nodes(g) THEN <<>>
    ELSE get_edge_list(g, l, i) \o make_edge_list_from(g, l, i + 1)

make_edge_list(g, l) == make_edge_list_from(g, l, 0)

--------------------------------------------------------------------------
(* bellman_ford (src/src/bellman_ford.rs). The vector last is written and  *)
(* never read, and is left out.                                            *)

\* for e in &all_edges { ... }: one pass, from edge k on.
RECURSIVE relax_pass(_, _, _)
relax_pass(cost, all_edges, k) ==
    IF k > Len(all_edges) THEN cost
    ELSE LET e == all_edges[k]
             cost_through_node == FAdd(At(cost, e.from), e.weight)
         IN  IF FLt(cost_through_node, At(cost, e.to))
             THEN relax_pass(Update(cost, e.to, cost_through_node), all_edges, k + 1)
             ELSE relax_pass(cost, all_edges, k + 1)

\* for _ in 0..rounds { pass }
RECURSIVE relax_rounds(_, _, _)
relax_rounds(cost, all_edges, rounds) ==
    IF rounds <= 0 THEN cost
    ELSE relax_rounds(relax_pass(cost, all_edges, 1), all_edges, rounds - 1)

\* for e in all_edges { if cost[e.to] > cost[e.from] + e.weight { return None } }
still_relaxable(cost, all_edges) ==
    \E k \in 1..Len(all_edges) :
        FLt(FAdd(At(cost, all_edges[k].from), all_edges[k].weight), At(cost, all_edges[k].to))

bf_rounds_one_short(g) == num_nodes(g) - 2

bf_rounds(g) == num_nodes(g) - 1

bellman_ford_no_check(g, l, s) ==
    LET cost0 == Update([i \in 1..num_nodes(g) |-> INFINITY], s, Into(0))
    IN  Some(relax_rounds(cost0, make_edge_list(g, l), bf_rounds(g)))

bellman_ford(g, l, s) ==
    LET cost0 == Update([i \in 1..num_nodes(g) |-> INFINITY], s, Into(0))
        all_edges == make_edge_list(g, l)
        cost == relax_rounds(cost0, all_edges, bf_rounds(g))
    IN  IF still_relaxable(cost, all_edges) THEN None ELSE Some(cost)

--------------------------------------------------------------------------
(* dijkstra (src/src/dijkstra.rs). A State is [cost, position]. The heap   *)
(* is the set of its entries: a push for a node carries a cost strictly    *)
(* below every entry that node ever had, so no entry occurs twice.         *)

State(cost, position) == [cost |-> cost, position |-> position]

\* impl Ord for State: a < b.
State_lt_cost_not_flipped(a, b) ==
    \/ FLt(a.cost, b.cost)
    \/ a.cost = b.cost /\ a.position < b.position

State_lt_position_flipped(a, b) ==
    \/ FLt(b.cost, a.cost)
    \/ a.cost = b.cost /\ b.position < a.position

State_lt(a, b) ==
    \/ FLt(b.cost, a.cost)
    \/ a.cost = b.cost /\ a.position < b.position

\* BinaryHeap::pop: the greatest entry.
heap_max(q) == CHOOSE s \in q : \A t \in q \ {s} : State_lt(t, s)

\* queue.iter().find(|State { position, .. }| *position == neighbor).is_some()
node_not_visited_always(q, neighbor) == TRUE

node_not_visited(q, neighbor) == \E s \in q : s.position = neighbor

\* for e in node.get_edge_list() { ... }: from edge k on; <<costs, queue>>.
RECURSIVE relax_edges(_, _, _, _, _)
RECURSIVE relax_edges_no_compare(_, _, _, _, _)
relax_edges_no_compare(c, q, position, edges, k) ==
    IF k > Len(edges) THEN <<c, q>>
    ELSE LET e == edges[k]
             neighbor == e.to
         IN  IF node_not_visited(q, neighbor)
             THEN LET new_cost == FAdd(At(c, position), e.weight)
                  IN  relax_edges_no_compare(Update(c, neighbor, new_cost),
                                             q \cup {State(new_cost, neighbor)},
                                             position, edges, k + 1)
             ELSE relax_edges_no_compare(c, q, position, edges, k + 1)

relax_edges(c, q, position, edges, k) ==
    IF k > Len(edges) THEN <<c, q>>
    ELSE LET e == edges[k]
             neighbor == e.to
         IN  IF node_not_visited(q, neighbor)
             THEN LET new_cost == FAdd(At(c, position), e.weight)
                  IN  IF FLt(new_cost, At(c, neighbor))
                      THEN relax_edges(Update(c, neighbor, new_cost),
                                       q \cup {State(new_cost, neighbor)},
                                       position, edges, k + 1)
                      ELSE relax_edges(c, q, position, edges, k + 1)
             ELSE relax_edges(c, q, position, edges, k + 1)

--------------------------------------------------------------------------
(* A caller of the shortest-path functions: it builds a graph with         *)
(* insert_edge, then calls bellman_ford and dijkstra from one start.       *)

Build(from, to, weight) ==
    LET r == insert_edge(nodes, from, to, weight)
    IN  /\ pc = "build"
        /\ is_ok(r[2])
        /\ TotalEdges(r[1]) <= MaxEdges
        /\ nodes' = r[1]
        /\ UNCHANGED <<undirected, call, pre, ret, pc, start, layout, bf, costs, queue, pops>>
        /\ UNCHANGED <<popped, waiting, trvars, fw>>

\* The graph is complete; from here on it is borrowed immutably.
Borrow ==
    /\ pc = "build"
    /\ \E s \in 0..(num_nodes(nodes) - 1) : start' = s
    /\ \E l \in Layouts(nodes) : layout' = l
    /\ pc' = "ready"
    /\ UNCHANGED <<undirected, nodes, call, pre, ret, bf, costs, queue, pops>>
    /\ UNCHANGED <<popped, waiting, trvars, fw>>

BellmanFord ==
    /\ pc = "ready"
    /\ bf' = bellman_ford(nodes, layout, start)
    /\ pc' = "bf_done"
    /\ UNCHANGED <<undirected, nodes, call, pre, ret, start, layout, costs, queue, pops>>
    /\ UNCHANGED <<popped, waiting, trvars, fw>>

\* dijkstra up to its while loop.
DijkstraEnter ==
    /\ pc = "bf_done"
    /\ costs' = Update([i \in 1..num_nodes(nodes) |-> INFINITY], start, Into(0))
    /\ queue' = {State(Into(0), start)} \cup
                {State(INFINITY, i) : i \in (0..(num_nodes(nodes) - 1)) \ {start}}
    /\ pops' = 0
    /\ popped' = <<>>
    /\ waiting' = {}
    /\ pc' = "dijkstra"
    /\ UNCHANGED <<undirected, nodes, call, pre, ret, start, layout, bf, trvars, fw>>

\* One iteration of while let Some(State { position, .. }) = queue.pop().
DijkstraPop ==
    /\ pc = "dijkstra"
    /\ queue # {}
    /\ pops < MaxPops
    /\ LET top == heap_max(queue)
           r == relax_edges(costs, queue \ {top}, top.position,
                            get_edge_list(nodes, layout, top.position), 1)
       IN  /\ costs' = r[1]
           /\ queue' = r[2]
           /\ popped' = Append(popped, top)
           /\ waiting' = queue \ {top}
    /\ pops' = pops + 1
    /\ UNCHANGED <<undirected, nodes, call, pre, ret, pc, start, layout, bf, trvars, fw>>

\* queue.pop() is None: return costs.
DijkstraReturn ==
    /\ pc = "dijkstra"
    /\ queue = {}
    /\ pc' = "done"
    /\ UNCHANGED <<undirected, nodes, call, pre, ret, start, layout, bf, costs, queue, pops>>
    /\ UNCHANGED <<popped, waiting, trvars, fw>>

InitSP ==
    /\ undirected \in BOOLEAN
    /\ \E n \in 1..MaxNodes : nodes = InitNodes(n)
    /\ call = <<"new">>
    /\ pre = nodes
    /\ ret = Unit
    /\ pc = "build"
    /\ start = 0
    /\ layout = <<>>
    /\ bf = None
    /\ costs = <<>>
    /\ queue = {}
    /\ pops = 0
    /\ popped = <<>>
    /\ waiting = {}
    /\ seen = <<>>
    /\ last = <<>>
    /\ pending = <<>>
    /\ enqueued = <<>>
    /\ to_explore = <<>>
    /\ order = <<>>
    /\ component = <<>>
    /\ fw = <<>>

NextSP ==
    \/ \E from \in Indices, to \in Indices, weight \in Weights : Build(from, to, weight)
    \/ Borrow
    \/ BellmanFord
    \/ DijkstraEnter
    \/ DijkstraPop
    \/ DijkstraReturn

SpecSP == InitSP /\ [][NextSP]_vars

--------------------------------------------------------------------------
(* Paths, distances and cycles of a graph, defined from its edges alone.   *)

NodesOf(g) == 0..(Len(g) - 1)

\* The sequences of distinct nodes.
SimpleSeqs(g) ==
    UNION {{p \in [1..k -> NodesOf(g)] : \A i, j \in 1..k : p[i] = p[j] => i = j} :
            k \in 1..Len(g)}

IsPath(g, p) == \A i \in 1..(Len(p) - 1) : HasEdge(g, p[i], p[i + 1])

WeightOf(g, u, v) == At(g, u).edges[v].weight[2]

RECURSIVE PathWeightFrom(_, _, _)
PathWeightFrom(g, p, i) ==
    IF i >= Len(p) THEN 0 ELSE WeightOf(g, p[i], p[i + 1]) + PathWeightFrom(g, p, i + 1)

PathWeight(g, p) == PathWeightFrom(g, p, 1)

PathsFromTo(g, s, v) ==
    {p \in SimpleSeqs(g) : p[1] = s /\ p[Len(p)] = v /\ IsPath(g, p)}

Reachable(g, s, v) == PathsFromTo(g, s, v) # {}

\* The least weight of a path from s to v, infinity when there is none.
Distance(g, s, v) ==
    IF ~Reachable(g, s, v) THEN INFINITY
    ELSE LET ws == {PathWeight(g, p) : p \in PathsFromTo(g, s, v)}
         IN  Into(CHOOSE w \in ws : \A x \in ws : w <= x)

CycleWeight(g, c) == PathWeight(g, c) + WeightOf(g, c[Len(c)], c[1])

Cycles(g) == {c \in SimpleSeqs(g) : IsPath(g, c) /\ HasEdge(g, c[Len(c)], c[1])}

NegativeCycleReachable(g, s) ==
    \E c \in Cycles(g) : CycleWeight(g, c) < 0 /\ Reachable(g, s, c[1])

NonNegative(g) ==
    \A u \in NodesOf(g) : \A k \in DOMAIN At(g, u).edges : WeightOf(g, u, k) >= 0

BfReturned == pc \in {"bf_done", "dijkstra", "done"}

--------------------------------------------------------------------------
(* The shortest-path functions.                                            *)

\* C7: on a graph whose weights are all non-negative, bellman_ford returns
\* Some(d), and d is the vector dijkstra returns, entry by entry, whatever
\* the iteration order of the edge maps in either function.
C7_BellmanFordEqualsDijkstra ==
    NonNegative(nodes) =>
        /\ BfReturned => is_some(bf)
        /\ pc = "done" =>
              \A l \in Layouts(nodes) : bellman_ford(nodes, l, start) = Some(costs)

\* A node whose distance is below the weight of its edge from start.
C7_Witness ==
    /\ pc = "done"
    /\ NonNegative(nodes)
    /\ bf = Some(costs)
    /\ \E v \in NodesOf(nodes) \ {start} :
          /\ HasEdge(nodes, start, v)
          /\ FLt(At(costs, v), At(nodes, start).edges[v].weight)

\* C8: bellman_ford returns None if and only if a cycle of negative total
\* weight (a negative self-loop included) is reachable from start.
C8_NoneIffNegativeCycle ==
    BfReturned => (is_none(bf) <=> NegativeCycleReachable(nodes, start))

\* None for a negative cycle that start reaches and is not on.
C8_Witness ==
    /\ BfReturned
    /\ is_none(bf)
    /\ \A c \in Cycles(nodes) : CycleWeight(nodes, c) < 0 => \A i \in 1..Len(c) : c[i] # start
    /\ \E c \in Cycles(nodes) : CycleWeight(nodes, c) < 0 /\ Len(c) >= 2

\* C9: when bellman_ford returns Some(d), d[v] is the least weight of a path
\* from start to v, positive infinity exactly when v is not reachable, and
\* the same for every order in which make_edge_list yields the edges.
C9_DistancesAreShortest ==
    (BfReturned /\ is_some(bf)) =>
        /\ \A v \in NodesOf(nodes) :
              /\ At(unwrap(bf), v) = Distance(nodes, start, v)
              /\ At(unwrap(bf), v) = INFINITY <=> ~Reachable(nodes, start, v)
        /\ \A l \in Layouts(nodes) : bellman_ford(nodes, l, start) = bf

\* A negative distance, a node out of reach, and a node with two edges.
C9_Witness ==
    /\ BfReturned
    /\ is_some(bf)
    /\ \E v \in NodesOf(nodes) : FLt(At(unwrap(bf), v), Into(0))
    /\ \E v \in NodesOf(nodes) : At(unwrap(bf), v) = INFINITY
    /\ \E u \in NodesOf(nodes) : num_edges(At(nodes, u)) >= 2

\* C10: distance[start] = 0 in the vector dijkstra returns, whatever the
\* weights, and in every vector bellman_ford returns.
C10_StartDistanceZero ==
    /\ pc \in {"dijkstra", "done"} => At(costs, start) = Into(0)
    /\ (BfReturned /\ is_some(bf)) => At(unwrap(bf), start) = Into(0)

\* dijkstra has returned on a graph with a negative edge into start.
C10_Witness ==
    /\ pc = "done"
    /\ At(costs, start) = Into(0)
    /\ \E u \in NodesOf(nodes) :
          /\ HasEdge(nodes, u, start)
          /\ WeightOf(nodes, u, start) < 0
          /\ At(costs, u) # INFINITY

--------------------------------------------------------------------------
(* Traversal (src/src/bfs.rs, src/src/dfs.rs). The traversals read no      *)
(* weight; their callers insert every edge with the weight 1.0.            *)

MaxTravNodes == 4
MaxTravEdges == 4

TravIndices == 0..MaxTravNodes

\* The keys of a map in ascending order.
sort_by(S) == CHOOSE f \in Permutations(S) : \A i, j \in 1..Cardinality(S) : i < j => f[i] < f[j]

\* Node::get_ordered_edge_list of node i.
get_ordered_edge_list(g, i) ==
    LET keys == sort_by(DOMAIN At(g, i).edges)
    IN  [j \in 1..Len(keys) |-> At(g, i).edges[keys[j]]]

\* Vec::reverse
reverse_not(vec) == vec

reverse(vec) == [j \in 1..Len(vec) |-> vec[Len(vec) + 1 - j]]

\* bfs: for e in g.nodes[next].get_edge_list() { ... }, from edge k on;
\* <<seen, last, pending>>.
RECURSIVE bfs_edges(_, _, _, _, _, _)
RECURSIVE bfs_edges_always_record(_, _, _, _, _, _)
bfs_edges_always_record(sn, lst, pend, next, edges, k) ==
    IF k > Len(edges) THEN <<sn, lst, pend>>
    ELSE LET neighbour == edges[k].to
         IN  IF ~At(sn, neighbour)
             THEN bfs_edges_always_record(Update(sn, neighbour, TRUE),
                                          Update(lst, neighbour, next),
                                          Append(pend, neighbour), next, edges, k + 1)
             ELSE bfs_edges_always_record(sn, Update(lst, neighbour, next), pend,
                                          next, edges, k + 1)

RECURSIVE bfs_edges_no_mark(_, _, _, _, _, _)
bfs_edges_no_mark(sn, lst, pend, next, edges, k) ==
    IF k > Len(edges) THEN <<sn, lst, pend>>
    ELSE LET neighbour == edges[k].to
         IN  IF ~At(sn, neighbour)
             THEN bfs_edges_no_mark(sn, Update(lst, neighbour, next),
                                    Append(pend, neighbour), next, edges, k + 1)
             ELSE bfs_edges_no_mark(sn, lst, pend, next, edges, k + 1)

bfs_edges(sn, lst, pend, next, edges, k) ==
    IF k > Len(edges) THEN <<sn, lst, pend>>
    ELSE LET neighbour == edges[k].to
         IN  IF ~At(sn, neighbour)
             THEN bfs_edges(Update(sn, neighbour, TRUE), Update(lst, neighbour, next),
                            Append(pend, neighbour), next, edges, k + 1)
             ELSE bfs_edges(sn, lst, pend, next, edges, k + 1)

\* bfs up to its while loop.
BfsEnter ==
    /\ pc = "ready"
    /\ seen' = Update([i \in 1..num_nodes(nodes) |-> FALSE], start, TRUE)
    /\ last' = [i \in 1..num_nodes(nodes) |-> -1]
    /\ pending' = <<start>>
    /\ enqueued' = <<start>>
    /\ pc' = "bfs"
    /\ UNCHANGED <<gvars, start, layout, bf, costs, queue, pops, popped, waiting>>
    /\ UNCHANGED <<to_explore, order, component, fw>>

\* One iteration of while !pending.is_empty().
BfsPop ==
    /\ pc = "bfs"
    /\ pending # <<>>
    /\ LET next == Head(pending)
           r == bfs_edges(seen, last, Tail(pending), next,
                          get_edge_list(nodes, layout, next), 1)
       IN  /\ seen' = r[1]
           /\ last' = r[2]
           /\ pending' = r[3]
           /\ enqueued' = enqueued \o SubSeq(r[3], Len(pending), Len(r[3]))
    /\ UNCHANGED <<gvars, pc, start, layout, bf, costs, queue, pops, popped, waiting>>
    /\ UNCHANGED <<to_explore, order, component, fw>>

\* return last
BfsReturn ==
    /\ pc = "bfs"
    /\ pending = <<>>
    /\ pc' = "bfs_done"
    /\ UNCHANGED <<gvars, start, layout, bf, costs, queue, pops, popped, waiting>>
    /\ UNCHANGED <<trvars, fw>>

\* dfs_stack: for e in edges { ... }, from edge k on; <<last, to_explore>>.
RECURSIVE dfs_stack_edges(_, _, _, _, _, _)
RECURSIVE dfs_stack_edges_record_seen(_, _, _, _, _, _)
dfs_stack_edges_record_seen(sn, lst, stack, ind, edges, k) ==
    IF k > Len(edges) THEN <<lst, stack>>
    ELSE LET neighbor == edges[k].to
         IN  IF ~At(sn, neighbor)
             THEN dfs_stack_edges_record_seen(sn, Update(lst, neighbor, ind),
                                              Append(stack, neighbor), ind, edges, k + 1)
             ELSE dfs_stack_edges_record_seen(sn, Update(lst, neighbor, ind), stack,
                                              ind, edges, k + 1)

dfs_stack_edges(sn, lst, stack, ind, edges, k) ==
    IF k > Len(edges) THEN <<lst, stack>>
    ELSE LET neighbor == edges[k].to
         IN  IF ~At(sn, neighbor)
             THEN dfs_stack_edges(sn, Update(lst, neighbor, ind), Append(stack, neighbor),
                                  ind, edges, k + 1)
             ELSE dfs_stack_edges(sn, lst, stack, ind, edges, k + 1)

\* dfs_stack up to its while loop.
DfsStackEnter ==
    /\ pc = "ready"
    /\ seen' = [i \in 1..num_nodes(nodes) |-> FALSE]
    /\ last' = [i \in 1..num_nodes(nodes) |-> -1]
    /\ to_explore' = <<start>>
    /\ order' = <<>>
    /\ pc' = "dfs_stack"
    /\ UNCHANGED <<gvars, start, layout, bf, costs, queue, pops, popped, waiting>>
    /\ UNCHANGED <<pending, enqueued, component, fw>>

\* One iteration of while !to_explore.is_empty().
DfsStackPop ==
    /\ pc = "dfs_stack"
    /\ to_explore # <<>>
    /\ LET ind == to_explore[Len(to_explore)]
           rest == SubSeq(to_explore, 1, Len(to_explore) - 1)
       IN  IF ~At(seen, ind)
           THEN LET sn == Update(seen, ind, TRUE)
                    r == dfs_stack_edges(sn, last, rest, ind,
                                         reverse(get_ordered_edge_list(nodes, ind)), 1)
                IN  /\ seen' = sn
                    /\ order' = Append(order, ind)
                    /\ last' = r[1]
                    /\ to_explore' = r[2]
           ELSE /\ to_explore' = rest
                /\ UNCHANGED <<seen, last, order>>
    /\ UNCHANGED <<gvars, pc, start, layout, bf, costs, queue, pops, popped, waiting>>
    /\ UNCHANGED <<pending, enqueued, component, fw>>

\* return last
DfsStackReturn ==
    /\ pc = "dfs_stack"
    /\ to_explore = <<>>
    /\ pc' = "dfs_done"
    /\ UNCHANGED <<gvars, start, layout, bf, costs, queue, pops, popped, waiting>>
    /\ UNCHANGED <<trvars, fw>>

\* dfs_recursive, with the order in which it marks the nodes and the node
\* whose loop called it for each: tr is [seen, order, parent].
RECURSIVE dfs_recursive(_, _, _, _)
RECURSIVE dfs_recursive_edges(_, _, _, _, _)
dfs_recursive(g, l, ind, tr) ==
    dfs_recursive_edges(g, l, ind,
                        [tr EXCEPT !.seen = Update(tr.seen, ind, TRUE),
                                   !.order = Append(tr.order, ind)], 1)

\* for e in current.get_edge_list() { ... }, from edge k on.
dfs_recursive_edges(g, l, ind, tr, k) ==
    IF k > Len(get_edge_list(g, l, ind)) THEN tr
    ELSE LET neighbour == get_edge_list(g, l, ind)[k].to
         IN  IF ~At(tr.seen, neighbour)
             THEN dfs_recursive_edges(g, l, ind,
                      dfs_recursive(g, l, neighbour,
                                    [tr EXCEPT !.parent = Update(tr.parent, neighbour, ind)]),
                      k + 1)
             ELSE dfs_recursive_edges(g, l, ind, tr, k + 1)

\* dfs: a fresh seen, then dfs_recursive.
dfs(g, l, s) ==
    dfs_recursive(g, l, s, [seen |-> [i \in 1..num_nodes(g) |-> FALSE],
                            order |-> <<>>,
                            parent |-> [i \in 1..num_nodes(g) |-> -1]])

\* dfs_recursive_connected_componentes
RECURSIVE dfs_recursive_connected_componentes(_, _, _, _, _)
RECURSIVE components_edges(_, _, _, _, _, _)
dfs_recursive_connected_componentes(g, l, ind, comp, curr_comp) ==
    components_edges(g, l, ind, Update(comp, ind, curr_comp), curr_comp, 1)

\* for e in g.nodes[ind].get_edge_list() { ... }, from edge k on.
components_edges(g, l, ind, comp, curr_comp, k) ==
    IF k > Len(get_edge_list(g, l, ind)) THEN comp
    ELSE LET neighbor == get_edge_list(g, l, ind)[k].to
         IN  IF At(comp, neighbor) = -1
             THEN components_edges(g, l, ind,
                      dfs_recursive_connected_componentes(g, l, neighbor, comp, curr_comp),
                      curr_comp, k + 1)
             ELSE components_edges(g, l, ind, comp, curr_comp, k + 1)

RECURSIVE components_from_same_id(_, _, _, _, _)
components_from_same_id(g, l, comp, curr_comp, ind) ==
    IF ind >= num_nodes(g) THEN comp
    ELSE IF At(comp, ind) = -1
         THEN components_from_same_id(g, l,
                  dfs_recursive_connected_componentes(g, l, ind, comp, curr_comp),
                  curr_comp, ind + 1)
         ELSE components_from_same_id(g, l, comp, curr_comp, ind + 1)

\* for ind in 0..g.num_nodes() { ... }, from node ind on.
RECURSIVE components_from(_, _, _, _, _)
components_from(g, l, comp, curr_comp, ind) ==
    IF ind >= num_nodes(g) THEN comp
    ELSE IF At(comp, ind) = -1
         THEN components_from(g, l,
                  dfs_recursive_connected_componentes(g, l, ind, comp, curr_comp),
                  curr_comp + 1, ind + 1)
         ELSE components_from(g, l, comp, curr_comp, ind + 1)

dfs_connected_componentes(g, l) ==
    components_from(g, l, [i \in 1..num_nodes(g) |-> -1], 0, 0)

--------------------------------------------------------------------------
(* A caller of the traversals: it builds a graph with insert_edge, then    *)
(* calls dfs_connected_componentes, or bfs or dfs_stack from one start.    *)

BuildTR(from, to) ==
    LET r == insert_edge(nodes, from, to, 1)
    IN  /\ pc = "build"
        /\ is_ok(r[2])
        /\ TotalEdges(r[1]) <= (IF undirected THEN 2 * MaxTravEdges ELSE MaxTravEdges)
        /\ nodes' = r[1]
        /\ UNCHANGED <<undirected, call, pre, ret, spvars, trvars, fw>>

ConnectedComponents ==
    /\ pc = "build"
    /\ \E l \in Layouts(nodes) :
          /\ layout' = l
          /\ component' = dfs_connected_componentes(nodes, l)
    /\ pc' = "components_done"
    /\ UNCHANGED <<gvars, start, bf, costs, queue, pops, popped, waiting>>
    /\ UNCHANGED <<seen, last, pending, enqueued, to_explore, order, fw>>

InitTR ==
    /\ undirected \in BOOLEAN
    /\ \E n \in 0..MaxTravNodes : nodes = InitNodes(n)
    /\ call = <<"new">>
    /\ pre = nodes
    /\ ret = Unit
    /\ pc = "build"
    /\ start = 0
    /\ layout = <<>>
    /\ bf = None
    /\ costs = <<>>
    /\ queue = {}
    /\ pops = 0
    /\ popped = <<>>
    /\ waiting = {}
    /\ seen = <<>>
    /\ last = <<>>
    /\ pending = <<>>
    /\ enqueued = <<>>
    /\ to_explore = <<>>
    /\ order = <<>>
    /\ component = <<>>
    /\ fw = <<>>

NextTR ==
    \/ \E from \in TravIndices, to \in TravIndices : BuildTR(from, to)
    \/ ConnectedComponents
    \/ Borrow
    \/ BfsEnter
    \/ BfsPop
    \/ BfsReturn
    \/ DfsStackEnter
    \/ DfsStackPop
    \/ DfsStackReturn

SpecTR == InitTR /\ [][NextTR]_vars

--------------------------------------------------------------------------
(* The traversals.                                                         *)

\* v, its predecessor, that one's predecessor, ..., for at most fuel hops.
RECURSIVE PredChain(_, _, _)
PredChain(lst, v, fuel) ==
    IF At(lst, v) = -1 \/ fuel = 0 THEN <<v>>
    ELSE <<v>> \o PredChain(lst, At(lst, v), fuel - 1)

Distinct(p) == \A i, j \in 1..Len(p) : p[i] = p[j] => i = j

\* The least set of nodes that holds S and every target of an edge from it.
RECURSIVE Closure(_, _)
Closure(g, S) ==
    LET T == S \cup {v \in NodesOf(g) : \E u \in S : HasEdge(g, u, v)}
    IN  IF T = S THEN S ELSE Closure(g, T)

\* A path of edges, possibly empty, leads from s to v.
Reaches(g, s, v) == v \in Closure(g, {s})

\* lst is a tree over the nodes start reaches, rooted at start.
TreeRootedAt(g, s, lst) ==
    /\ At(lst, s) = -1
    /\ \A v \in NodesOf(g) :
          /\ At(lst, v) # -1 <=> (v # s /\ Reaches(g, s, v))
          /\ At(lst, v) # -1 => HasEdge(g, At(lst, v), v)
          /\ (v = s \/ At(lst, v) # -1) =>
                LET c == PredChain(lst, v, num_nodes(g))
                IN  /\ c[Len(c)] = s
                    /\ Len(c) - 1 < num_nodes(g)
                    /\ Distinct(c)

\* C11: the vector bfs returns and the vector dfs_stack returns are each a
\* tree rooted at start: the entry of start is -1; the entry of v is not -1
\* exactly when v is another node that start reaches; each entry that is
\* not -1 is the source of an edge into its node; and the predecessors of
\* a reached node lead to start in fewer than node_count hops, no node
\* twice, cycles and self-loops included.
C11_PredecessorTree ==
    pc \in {"bfs_done", "dfs_done"} => TreeRootedAt(nodes, start, last)

\* A returned tree two hops deep on a graph with a self-loop and an edge
\* back into start.
C11_Witness ==
    /\ pc \in {"bfs_done", "dfs_done"}
    /\ \E v \in NodesOf(nodes) : HasEdge(nodes, v, v) /\ At(last, v) # -1
    /\ \E u \in NodesOf(nodes) : u # start /\ HasEdge(nodes, u, start) /\ At(last, u) # -1
    /\ \E v \in NodesOf(nodes) : Len(PredChain(last, v, num_nodes(nodes))) = 3

\* bfs: while !pending.is_empty() { ... }, to its end; last.
RECURSIVE bfs_loop(_, _, _, _, _)
bfs_loop(g, l, sn, lst, pend) ==
    IF pend = <<>> THEN lst
    ELSE LET r == bfs_edges(sn, lst, Tail(pend), Head(pend),
                            get_edge_list(g, l, Head(pend)), 1)
         IN  bfs_loop(g, l, r[1], r[2], r[3])

bfs(g, l, s) ==
    bfs_loop(g, l, Update([i \in 1..num_nodes(g) |-> FALSE], s, TRUE),
             [i \in 1..num_nodes(g) |-> -1], <<s>>)

\* The map order in which every node yields its edges by ascending neighbour.
Ascending(g) == [i \in 1..Len(g) |-> sort_by(DOMAIN g[i].edges)]

\* C12: the vector bfs returns is the one a bfs that takes each node's
\* neighbours in ascending index returns, so it is the same for every
\* order in which the edge maps are iterated; on the edges 0->1, 0->2,
\* 1->3, 2->3 from start 0 it is [-1, 0, 0, 1].
C12_BfsOrderIndependent ==
    pc = "bfs_done" =>
        /\ last = bfs(nodes, Ascending(nodes), start)
        /\ \A l \in Layouts(nodes) : bfs(nodes, l, start) = last

\* C13: on an undirected graph built with insert_edge, the vector
\* dfs_connected_componentes returns has node_count entries, none below 0,
\* and two nodes have the same entry exactly when a path joins them; it is
\* the same vector for every order in which the edge maps are iterated; on
\* a graph without nodes it is empty.
C13_ComponentsPartition ==
    pc = "components_done" =>
        /\ num_nodes(nodes) = 0 => component = <<>>
        /\ undirected =>
              /\ Len(component) = num_nodes(nodes)
              /\ \A v \in NodesOf(nodes) : At(component, v) >= 0
              /\ \A u, v \in NodesOf(nodes) :
                    At(component, u) = At(component, v) <=> Reaches(nodes, u, v)
              /\ \A l \in Layouts(nodes) : dfs_connected_componentes(nodes, l) = component

\* Two components, the first of three nodes around a node between them.
C13_Witness ==
    /\ pc = "components_done"
    /\ undirected
    /\ component = <<0, 1, 0, 0>>
    /\ \E m \in NodesOf(nodes) : num_edges(At(nodes, m)) = 2

\* C17, as stated: in dfs_stack an entry of last, once it is not -1, is
\* never assigned another value, also when its node is pushed again before
\* it is popped.
C17_FixedOnFirstEncounter ==
    [][pc = "dfs_stack" =>
          \A v \in NodesOf(nodes) : At(last, v) # -1 => At(last', v) = At(last, v)]_vars

\* C17, amended: in dfs_stack the entry of a node that has been popped and
\* marked seen is never assigned again; until then each push of the node
\* assigns its entry anew, to the node whose edges are being scanned.
C17_FixedOncePopped ==
    [][pc = "dfs_stack" =>
          \A v \in NodesOf(nodes) :
              /\ At(seen, v) => At(last', v) = At(last, v)
              /\ At(last', v) # At(last, v) =>
                    At(last', v) = to_explore[Len(to_explore)]]_vars

\* dfs_stack has returned, and a node that start pushed has another
\* predecessor.
C17_Witness ==
    /\ pc = "dfs_done"
    /\ \E v \in NodesOf(nodes) \ {start} :
          /\ HasEdge(nodes, start, v)
          /\ At(last, v) \notin {-1, start}

\* C18: dfs_stack marks the nodes in the order in which a recursive search
\* that takes the unvisited neighbours by ascending index marks them; the
\* vector it returns holds, for each node reached other than start, its
\* parent in the tree of that search; and no node is marked twice, however
\* often it was pushed.
C18_StackMatchesRecursive ==
    /\ pc \in {"dfs_stack", "dfs_done"} => Distinct(order)
    /\ pc = "dfs_done" =>
          LET ref == dfs(nodes, Ascending(nodes), start)
          IN  /\ order = ref.order
              /\ last = ref.parent

\* dfs_stack has returned after marking four nodes, one of them pushed by
\* start and again by its parent in the tree.
C18_Witness ==
    /\ pc = "dfs_done"
    /\ Len(order) = 4
    /\ \E v \in NodesOf(nodes) \ {start} :
          /\ HasEdge(nodes, start, v)
          /\ At(last, v) \notin {-1, start}
          /\ HasEdge(nodes, At(last, v), v)

--------------------------------------------------------------------------
(* floyd_warshall (src/src/floyd_warshall.rs). cost and last are vectors   *)
(* of rows.                                                                *)

MaxFWEdges == 4

At2(m, i, j) == At(At(m, i), j)
Update2(m, i, j, x) == Update(m, i, Update(At(m, i), j, x))

\* The first pair of loops: [cost, last] from the edges.
floyd_warshall_init_no_diagonal(g) ==
    LET n == num_nodes(g)
        e(i, j) == get_edge(g, i, j)[2]
    IN  [cost |-> [i \in 1..n |-> [j \in 1..n |->
                      IF is_some(e(i - 1, j - 1)) THEN unwrap(e(i - 1, j - 1)).weight
                      ELSE IF i = j THEN Into(0) ELSE INFINITY]],
         last |-> [i \in 1..n |-> [j \in 1..n |->
                      IF is_some(e(i - 1, j - 1)) THEN i - 1 ELSE -1]]]

floyd_warshall_init(g) ==
    LET n == num_nodes(g)
        e(i, j) == get_edge(g, i, j)[2]
    IN  [cost |-> [i \in 1..n |-> [j \in 1..n |->
                      IF i = j THEN Into(0)
                      ELSE IF is_some(e(i - 1, j - 1)) THEN unwrap(e(i - 1, j - 1)).weight
                      ELSE INFINITY]],
         last |-> [i \in 1..n |-> [j \in 1..n |->
                      IF i # j /\ is_some(e(i - 1, j - 1)) THEN i - 1 ELSE -1]]]

\* for k in 0..n { for i in 0..n { for j in 0..n { ... } } }, from the
\* t-th iteration on, t = (k * n + i) * n + j.
RECURSIVE floyd_warshall_loops(_, _, _, _)
RECURSIVE floyd_warshall_loops_keep_last(_, _, _, _)
floyd_warshall_loops_keep_last(cost, lst, n, t) ==
    IF t >= n * n * n THEN [cost |-> cost, last |-> lst]
    ELSE LET k == t \div (n * n)
             i == (t \div n) % n
             j == t % n
             through == FAdd(At2(cost, i, k), At2(cost, k, j))
         IN  IF FLt(through, At2(cost, i, j))
             THEN floyd_warshall_loops_keep_last(Update2(cost, i, j, through), lst, n, t + 1)
             ELSE floyd_warshall_loops_keep_last(cost, lst, n, t + 1)

floyd_warshall_loops(cost, lst, n, t) ==
    IF t >= n * n * n THEN [cost |-> cost, last |-> lst]
    ELSE LET k == t \div (n * n)
             i == (t \div n) % n
             j == t % n
             through == FAdd(At2(cost, i, k), At2(cost, k, j))
         IN  IF FLt(through, At2(cost, i, j))
             THEN floyd_warshall_loops(Update2(cost, i, j, through),
                                       Update2(lst, i, j, At2(lst, k, j)), n, t + 1)
             ELSE floyd_warshall_loops(cost, lst, n, t + 1)

\* cost and last as floyd_warshall has them when it returns.
floyd_warshall_locals(g) ==
    floyd_warshall_loops(floyd_warshall_init(g).cost, floyd_warshall_init(g).last,
                         num_nodes(g), 0)

floyd_warshall(g) == floyd_warshall_locals(g).last

--------------------------------------------------------------------------
(* A caller of floyd_warshall: it builds a graph with insert_edge, then    *)
(* calls floyd_warshall.                                                   *)

BuildFW(from, to, weight) ==
    LET r == insert_edge(nodes, from, to, weight)
    IN  /\ pc = "build"
        /\ is_ok(r[2])
        /\ TotalEdges(r[1]) <= MaxFWEdges
        /\ nodes' = r[1]
        /\ UNCHANGED <<undirected, call, pre, ret, spvars, trvars, fw>>

FloydWarshall ==
    /\ pc = "build"
    /\ fw' = floyd_warshall_locals(nodes)
    /\ pc' = "fw_done"
    /\ UNCHANGED <<gvars, start, layout, bf, costs, queue, pops, popped, waiting, trvars>>

NextFW ==
    \/ \E from \in Indices, to \in Indices, weight \in Weights : BuildFW(from, to, weight)
    \/ FloydWarshall

SpecFW == InitSP /\ [][NextFW]_vars

--------------------------------------------------------------------------
(* The predecessor matrix of floyd_warshall.                               *)

NoNegativeCycle(g) == \A c \in Cycles(g) : CycleWeight(g, c) >= 0

\* The nodes the predecessors of row i lead through, from cur back to i or
\* to -1, for at most fuel hops, written from its far end to cur.
RECURSIVE FwPath(_, _, _, _)
FwPath(row, i, cur, fuel) ==
    IF cur = i \/ cur = -1 \/ fuel = 0 THEN <<cur>>
    ELSE Append(FwPath(row, i, At(row, cur), fuel - 1), cur)

\* C14: on a graph without a cycle of negative weight, for every i and j
\* with last[i][j] # -1, the predecessors j, last[i][j],
\* last[i][last[i][j]], ... reach i in fewer than node_count hops, each hop
\* is an edge of the graph, and the weights of the hops add up to the final
\* cost[i][j], which is the least weight of a path from i to j.
C14_FwPathReconstruction ==
    (pc = "fw_done" /\ NoNegativeCycle(nodes)) =>
        \A i, j \in NodesOf(nodes) :
            At2(fw.last, i, j) # -1 =>
                LET p == FwPath(At(fw.last, i), i, j, num_nodes(nodes))
                IN  /\ p[1] = i
                    /\ Len(p) - 1 < num_nodes(nodes)
                    /\ IsPath(nodes, p)
                    /\ At2(fw.cost, i, j) = Into(PathWeight(nodes, p))
                    /\ At2(fw.cost, i, j) = Distance(nodes, i, j)

\* A path of two hops over a negative edge that is lighter than the edge
\* from its first node to its last.
C14_Witness ==
    /\ pc = "fw_done"
    /\ NoNegativeCycle(nodes)
    /\ \E i, j \in NodesOf(nodes) :
          /\ HasEdge(nodes, i, j)
          /\ At2(fw.last, i, j) \notin {-1, i}
          /\ WeightOf(nodes, At2(fw.last, i, j), j) < 0
          /\ FLt(At2(fw.cost, i, j), At(nodes, i).edges[j].weight)

\* C19: on a graph without a cycle of negative weight, every last[i][i] is
\* -1, with a self-loop at i too, and for i # j the entry last[i][j] is not
\* -1 exactly when a path of edges leads from i to j.
C19_FwDiagonalAndReachability ==
    (pc = "fw_done" /\ NoNegativeCycle(nodes)) =>
        \A i, j \in NodesOf(nodes) :
            /\ i = j => At2(fw.last, i, j) = -1
            /\ i # j => (At2(fw.last, i, j) # -1 <=> Reaches(nodes, i, j))

\* A self-loop on a node that lies on a cycle of weight 0, a node reached
\* over two hops only, and a node not reached.
C19_Witness ==
    /\ pc = "fw_done"
    /\ NoNegativeCycle(nodes)
    /\ \E i \in NodesOf(nodes) :
          /\ HasEdge(nodes, i, i)
          /\ \E c \in Cycles(nodes) : Len(c) = 2 /\ c[1] = i /\ CycleWeight(nodes, c) = 0
    /\ \E i, j \in NodesOf(nodes) :
          i # j /\ ~HasEdge(nodes, i, j) /\ At2(fw.last, i, j) # -1
    /\ \E i, j \in NodesOf(nodes) : i # j /\ At2(fw.last, i, j) = -1

--------------------------------------------------------------------------
(* The loop of dijkstra.                                                   *)

InDijkstra == pc \in {"dijkstra", "done"} /\ pops >= 1

\* The entry the last queue.pop() returned.
LastPopped == popped[Len(popped)]

\* C15, as stated: queue.pop() returns an entry of least cost and, among
\* the entries of that cost, the one of the least node index.
C15_TieAscendingIndex ==
    InDijkstra =>
        \A t \in waiting :
            \/ FLt(LastPopped.cost, t.cost)
            \/ t.cost = LastPopped.cost /\ LastPopped.position < t.position

\* C15, amended: queue.pop() returns an entry of least cost and, among the
\* entries of that cost, the one of the greatest node index.
C15_TieDescendingIndex ==
    InDijkstra =>
        \A t \in waiting :
            \/ FLt(LastPopped.cost, t.cost)
            \/ t.cost = LastPopped.cost /\ LastPopped.position > t.position

\* A pop that left behind an entry of the same finite cost and another of
\* a greater cost.
C15_Witness ==
    /\ InDijkstra
    /\ LastPopped.cost # INFINITY
    /\ \E t \in waiting : t.cost = LastPopped.cost /\ t.position < LastPopped.position
    /\ \E t \in waiting : FLt(LastPopped.cost, t.cost) /\ t.cost # INFINITY

\* C16: on a graph of non-negative weights no node is returned by two pops
\* of dijkstra's loop, each of which scans its edges, and no node that has
\* been popped still counts as not visited, that is, has an entry in queue.
C16_ProcessedOnce ==
    (pc \in {"dijkstra", "done"} /\ NonNegative(nodes)) =>
        /\ \A a, b \in 1..Len(popped) : popped[a].position = popped[b].position => a = b
        /\ \A a \in 1..Len(popped) : ~node_not_visited(queue, popped[a].position)

Pumping ==
    /\ pc = "dijkstra"
    /\ \E v \in NodesOf(nodes) :
          /\ HasEdge(nodes, v, v)
          /\ WeightOf(nodes, v, v) < 0
          /\ At(costs, v) # INFINITY
          /\ State(At(costs, v), v) \in queue
          /\ State(INFINITY, v) \in queue

\* Every step of dijkstra's loop keeps Pumping, under which queue is not
\* empty: a run that comes to it has no end.
PumpingPreserved == [][Pumping => Pumping']_vars

--------------------------------------------------------------------------
(* The queue of bfs.                                                       *)

\* The least number of edges on a path from a node of S to v, plus k; v is
\* reached from S.
RECURSIVE HopsFrom(_, _, _, _)
HopsFrom(g, S, v, k) ==
    IF v \in S THEN k
    ELSE HopsFrom(g, S \cup {w \in NodesOf(g) : \E u \in S : HasEdge(g, u, w)}, v, k + 1)

MinHops(g, s, v) == HopsFrom(g, {s}, v, 0)

\* The predecessors of every node s reaches lead back to s in as many hops
\* as the shortest path from s has edges.
ShortestHops(g, s, lst) ==
    \A v \in NodesOf(g) :
        Reaches(g, s, v) => Len(PredChain(lst, v, num_nodes(g))) - 1 = MinHops(g, s, v)

\* C21: bfs pushes no node to pending twice, and in the vector it returns
\* the number of predecessor hops from a reached node back to start is the
\* least number of edges on a path from start to it, for every order in
\* which the edge maps are iterated.
C21_BfsShortestHops ==
    /\ pc \in {"bfs", "bfs_done"} => Distinct(enqueued)
    /\ pc = "bfs_done" =>
          /\ ShortestHops(nodes, start, last)
          /\ \A l \in Layouts(nodes) : ShortestHops(nodes, start, bfs(nodes, l, start))

\* bfs has returned after pushing four nodes, the last of them two hops
\* from start behind two neighbours of start, on a graph with an edge back
\* into start.
C21_Witness ==
    /\ pc = "bfs_done"
    /\ Len(enqueued) = 4
    /\ \E u \in NodesOf(nodes) : u # start /\ HasEdge(nodes, u, start) /\ At(last, u) # -1
    /\ \E v, u1, u2 \in NodesOf(nodes) \ {start} :
          /\ u1 # u2 /\ v # u1 /\ v # u2
          /\ HasEdge(nodes, start, u1) /\ HasEdge(nodes, start, u2)
          /\ HasEdge(nodes, u1, v) /\ HasEdge(nodes, u2, v)
          /\ ~HasEdge(nodes, start, v)
          /\ MinHops(nodes, start, v) = 2

==========================================================================
